---- MODULE Spec2Model ----
(***************************************************************************)
(* Model of the Twitch -> Telegram notification bot (src/src/index.ts,     *)
(* src/src/utils.ts).                                                      *)
(*                                                                         *)
(* The program is one Node.js event loop.  Code between two awaits runs    *)
(* without interruption, so every action below is "resume a suspended      *)
(* await and run to the next await".  update() is an async function: the   *)
(* record of one execution of it is called a task.  The task started by    *)
(* the sweep that is still raced against the 15 s timer is `fg`; a task    *)
(* whose race was lost to the timer is not cancelled by the code, it keeps *)
(* running detached (`late`).                                              *)
(***************************************************************************)
EXTENDS Integers, Sequences, FiniteSets, TLC

(* ------------------------------------------------------------------ *)
(* Bounds of the model (not program constants)                        *)
(* ------------------------------------------------------------------ *)

\* Message ids the messaging platform may return from send are 1..MaxMsgId.
MaxMsgId == 2

(* ------------------------------------------------------------------ *)
(* Configuration (config.json), read once at startup                  *)
(* ------------------------------------------------------------------ *)

\* Object.entries(config.channels): the tracked entities, in file order.
ConfigChannels == <<"e1", "e2">>

ConfigNames == {ConfigChannels[i] : i \in 1..Len(ConfigChannels)}

\* config.channels[e].channelIds
channelIds(e) == IF e = "e1" THEN <<100>> ELSE <<>>

\* config.channels[e].groupIds
groupIds(e) == IF e = "e1" THEN <<200>> ELSE <<>>

Range(s) == {s[i] : i \in 1..Len(s)}

(* ------------------------------------------------------------------ *)
(* Values                                                             *)
(* ------------------------------------------------------------------ *)

\* null of lastStreamId / lastStreamTitle
Null == "null"

\* null of a message id.  The code tests ids with `!id`, so null and 0
\* are the same to it; message ids of the platform are >= 1.
NoMsg == 0

StreamIds == {"S1", "S2"}

Titles == {"T1", "T2"}

\* What getStreamByUserId can answer: no stream, or a stream {id, title}.
Offline == [live |-> FALSE, id |-> Null, title |-> Null]

Observations == {Offline} \cup [live : {TRUE}, id : StreamIds, title : Titles]

\* The kinds of environment a run can have.  In a faulty environment calls
\* to the two platforms may fail and a task that runs into its time limit
\* hangs forever; in a slow environment no call fails, and a task that runs
\* into its time limit resumes later.
Faulty == [kind |-> "faulty"]

Slow == [kind |-> "slow"]

\* The streams entity e can be found broadcasting.  e2 stays offline; in a
\* slow environment e1 broadcasts one stream, under either title.
Streams(e, w) ==
    IF e # "e1" THEN {}
    ELSE IF w.kind = "slow" THEN [live : {TRUE}, id : {"S1"}, title : Titles]
    ELSE Observations \ {Offline}

\* The empty object {} as a map destination id -> message id.
EmptyMap == [d \in {} |-> NoMsg]

\* The defaults of a ChannelState (lines 61-64).
FieldDefault(f) == IF f \in {"channels", "groups"} THEN EmptyMap ELSE Null

\* A defaulting in which the defaults come after the spread and win.
FieldDefaultWins(rec, f) == FieldDefault(f)

\* One field of a loaded record under the spread of lines 60-66: the loaded
\* value when the record has the field, the default otherwise.
Field(rec, f) == IF f \in DOMAIN rec THEN rec[f] ELSE FieldDefault(f)

\* { lastStreamId: null, lastStreamTitle: null, channels: {}, groups: {}, ...state }
Defaulted(rec) ==
    [lastStreamId |-> Field(rec, "lastStreamId"),
     lastStreamTitle |-> Field(rec, "lastStreamTitle"),
     channels |-> Field(rec, "channels"),
     groups |-> Field(rec, "groups")]

\* `...undefined` spreads nothing.
NoRecord == [f \in {} |-> Null]

\* state.json as found at startup: absent/empty, a complete record left by an
\* earlier run when destinations 300 and 400 were configured too, or a record
\* written by an older version that lacks fields, beside the record of an
\* entity "old" that is not configured any more.
LoadedSnapshots == {
    [n \in {} |-> EmptyMap],
    [n \in {"e1"} |->
        [lastStreamId |-> "S1", lastStreamTitle |-> "T1",
         channels |-> (100 :> 1 @@ 300 :> 1), groups |-> (200 :> 1 @@ 400 :> 1)]],
    [n \in {"e1", "old"} |->
        IF n = "e1"
        THEN [lastStreamTitle |-> "T1"]
        ELSE [lastStreamId |-> Null, lastStreamTitle |-> "T2",
              channels |-> EmptyMap, groups |-> EmptyMap]] }

(* ------------------------------------------------------------------ *)
(* Maps (JavaScript objects keyed by destination id)                  *)
(* ------------------------------------------------------------------ *)

RECURSIVE SortedSeq(_)
\* The keys of an object in enumeration order.  Destination ids here are
\* small non-negative integers, which JavaScript enumerates ascending.
SortedSeq(S) ==
    IF S = {} THEN <<>>
    ELSE LET m == CHOOSE x \in S : \A y \in S : x <= y
         IN <<m>> \o SortedSeq(S \ {m})

\* Object.entries(map): <<key, value>> pairs in enumeration order.
Entries(map) ==
    LET ks == SortedSeq(DOMAIN map)
    IN [i \in 1..Len(ks) |-> <<ks[i], map[ks[i]]>>]

IsSet(p) == p[2] # NoMsg

\* The entries a loop does not `continue` past: those whose id is truthy.
NonNull(entries) == SelectSeq(entries, IsSet)

\* map[k] = v
SetKey(map, k, v) == [d \in DOMAIN map \cup {k} |-> IF d = k THEN v ELSE map[d]]

\* delete map[k] for every k in ks
DeleteKeys(map, ks) == [d \in DOMAIN map \ ks |-> map[d]]

\* An array of destination ids as <<id, NoMsg>> pairs (nothing sent yet).
Targets(ids) == [i \in 1..Len(ids) |-> <<ids[i], NoMsg>>]

(* ------------------------------------------------------------------ *)
(* State                                                              *)
(* ------------------------------------------------------------------ *)

VARIABLES
    mem,        \* statusDb.data: entity name -> ChannelState
    disk,       \* state.json: what the last statusDb.write() serialised
    pcMain,     \* where the top-level code is: boot, loop, sweep, cleanup, sleep, exited
    idx,        \* position of updateAll's for loop in ConfigChannels (0: none)
    running,    \* the `running` flag of line 259
    stopSleep,  \* whether `stopSleep` holds the resolver of a pending sleep
    fg,         \* the update() task updateAll is awaiting, or NoTask
    late,       \* update() tasks still running after their timeout was reported
    lastSeen,   \* history: entity -> stream id last answered by getStreamByUserId (Null: none)
    timers,     \* the pending setTimeout timers: "limit" (utils.ts line 3), "sleep" (line 278)
    world       \* the environment: Faulty, Slow, or recovered (see Heal)

vars == <<mem, disk, pcMain, idx, running, stopSleep, fg, late, lastSeen, timers, world>>

NoTask == [pc |-> "none"]

\* No dispatcher call awaited.
NoCur == <<0, NoMsg>>

\* No observation yet.
Unseen == [live |-> FALSE, id |-> "none", title |-> "none"]

\* The activation record of update(e) at its first await (lines 70-77).
NewTask(e) ==
    [e |-> e, pc |-> "users", late |-> FALSE, branch |-> "none",
     obs |-> Unseen, prev |-> Null, pre |-> mem[e], preDisk |-> disk[e], at |-> mem[e],
     atG |-> EmptyMap, cur |-> NoCur, todo |-> <<>>, changes |-> FALSE,
     calls |-> <<>>, failed |-> {}]

Terminal == {"returned", "threw"}

Tasks == (IF fg = NoTask THEN {} ELSE {fg}) \cup late

\* The file records no notified session.
NoSession(file) ==
    \A n \in DOMAIN file :
        "lastStreamId" \in DOMAIN file[n] => file[n].lastStreamId = Null

Init ==
    /\ disk \in LoadedSnapshots
    /\ mem = disk
    /\ pcMain = "boot"
    /\ idx = 0
    /\ running = TRUE
    /\ stopSleep = FALSE
    /\ fg = NoTask
    /\ late = {}
    /\ lastSeen = [e \in ConfigNames |-> Null]
    /\ timers = {}
    /\ world \in {Faulty, Slow}
    /\ world = Slow => NoSession(disk)

(* ------------------------------------------------------------------ *)
(* Startup (lines 55-68) and the scheduler (lines 240-285)            *)
(* ------------------------------------------------------------------ *)

\* statusDb.data after the defaulting loop of lines 58-67.
StartupData(loaded) ==
    [n \in DOMAIN loaded \cup ConfigNames |->
        IF n \in ConfigNames
        THEN Defaulted(IF n \in DOMAIN loaded THEN loaded[n] ELSE NoRecord)
        ELSE loaded[n]]

\* Lines 55-68: read state.json, default every configured entity, write.
Startup ==
    /\ pcMain = "boot"
    /\ mem' = StartupData(disk)
    /\ disk' = mem'
    /\ pcMain' = "loop"
    /\ UNCHANGED <<idx, running, stopSleep, fg, late, lastSeen, timers, world>>

\* while (running) { updateAll() ...: the for loop calls update() for the
\* first entity, which runs to its first await.
SweepStart ==
    /\ pcMain = "loop"
    /\ running
    /\ pcMain' = "sweep"
    /\ idx' = 1
    /\ fg' = NewTask(ConfigChannels[1])
    /\ timers' = timers \cup {"limit"}
    /\ UNCHANGED <<mem, disk, running, stopSleep, late, lastSeen, world>>

\* Lines 284-285: the loop condition is false; process.exit(0) ends every
\* pending task with the process.
Exit ==
    /\ pcMain = "loop"
    /\ ~running
    /\ pcMain' = "exited"
    /\ late' = {}
    /\ timers' = {}
    /\ UNCHANGED <<mem, disk, idx, running, stopSleep, fg, lastSeen, world>>

\* fulfillWithTimeLimit resolved with the task's result (its timer is
\* cleared, utils.ts lines 9-11) and the for loop of line 241 has a next entry,
\* whose update() gets a time limit of its own.
NextEntity ==
    /\ pcMain = "sweep"
    /\ fg # NoTask
    /\ fg.pc = "returned"
    /\ idx < Len(ConfigChannels)
    /\ idx' = idx + 1
    /\ fg' = NewTask(ConfigChannels[idx + 1])
    /\ timers' = (timers \ {"limit"}) \cup {"limit"}
    /\ UNCHANGED <<mem, disk, pcMain, running, stopSleep, late, lastSeen, world>>

\* statusDb.data after the cleanup loop of lines 246-253.
Cleaned(data) == [n \in DOMAIN data \cap ConfigNames |-> data[n]]

\* Lines 244-256 and 277-280: the last update() returned and its time limit is
\* cleared; remove the records of entities that are not configured.  If any
\* was removed, updateAll writes and is suspended at the await of line 255;
\* otherwise it returns and the main loop arms the sleep in the same run.
SweepEnd ==
    /\ pcMain = "sweep"
    /\ fg # NoTask
    /\ fg.pc = "returned"
    /\ idx = Len(ConfigChannels)
    /\ mem' = Cleaned(mem)
    /\ fg' = NoTask
    /\ IF mem' # mem
       THEN /\ disk' = mem'
            /\ pcMain' = "cleanup"
            /\ timers' = timers \ {"limit"}
            /\ UNCHANGED <<idx, stopSleep>>
       ELSE /\ pcMain' = "sleep"
            /\ stopSleep' = TRUE
            /\ idx' = 0
            /\ timers' = (timers \ {"limit"}) \cup {"sleep"}
            /\ UNCHANGED disk
    /\ UNCHANGED <<running, late, lastSeen, world>>

\* Lines 255-256 and 277-280: the write of the cleanup resolved; updateAll
\* returns and the main loop arms the sleep.
CleanupWritten ==
    /\ pcMain = "cleanup"
    /\ pcMain' = "sleep"
    /\ stopSleep' = TRUE
    /\ idx' = 0
    /\ timers' = timers \cup {"sleep"}
    /\ UNCHANGED <<mem, disk, running, fg, late, lastSeen, world>>

\* Whether task t is in, or was rejected out of, the loop over the channels
\* (lines 149-158 of the edit branch, 194-200 of a new notification): the
\* channel loop makes the first calls of the branch, one per entry.
InChannelLoop(t) ==
    IF t.pc = "threw"
    THEN /\ t.calls # <<>>
         /\ IF t.branch = "new"
            THEN /\ t.calls[Len(t.calls)].op = "send"
                 /\ Len(t.calls) <= Len(channelIds(t.e))
            ELSE /\ t.branch = "edit"
                 /\ Len(t.calls) <= Len(NonNull(Entries(t.at.channels)))
    ELSE t.pc \in {"sendC", "editC"}

\* Destinations a fan-out that stops at task t leaves without their action.
LeftOut(t) ==
    IF t.branch = "new"
    THEN {t.cur[1]} \cup {t.todo[i][1] : i \in 1..Len(t.todo)}
         \cup (IF InChannelLoop(t) THEN Range(groupIds(t.e)) ELSE {})
    ELSE IF t.branch = "edit"
    THEN {t.cur[1]} \cup {t.todo[i][1] : i \in 1..Len(t.todo)}
         \cup (IF InChannelLoop(t)
               THEN {d \in DOMAIN mem[t.e].groups : mem[t.e].groups[d] # NoMsg}
               ELSE {})
    ELSE {}

\* A failed sweep that is followed by the next sweep without the sleep.
SweepAbortRetries ==
    /\ pcMain = "sweep"
    /\ fg # NoTask
    /\ fg.pc = "threw"
    /\ pcMain' = "loop"
    /\ idx' = 0
    /\ fg' = NoTask
    /\ UNCHANGED <<mem, disk, running, stopSleep, late, lastSeen, timers, world>>

\* Lines 242 and 272-280: update() rejected, so the await of line 242 throws
\* out of updateAll's loop; the main loop's catch logs it and arms the sleep.
\* The await of utils.ts line 8 throws before clearTimeout (lines 9-11), so the
\* time limit's timer stays pending.
SweepAbort ==
    /\ pcMain = "sweep"
    /\ fg # NoTask
    /\ fg.pc = "threw"
    /\ pcMain' = "sleep"
    /\ stopSleep' = TRUE
    /\ idx' = 0
    /\ fg' = NoTask
    /\ timers' = timers \cup {"sleep"}
    /\ UNCHANGED <<mem, disk, running, late, lastSeen, world>>

\* The task once its timeout was reported.  Nothing reads what a detached
\* task did before, so its history fields are reset.
Detached(t) ==
    [t EXCEPT !.late = TRUE, !.pre = Defaulted(NoRecord), !.preDisk = Defaulted(NoRecord),
              !.at = Defaulted(NoRecord),
              !.atG = EmptyMap, !.prev = Null, !.calls = <<>>, !.failed = {}]

\* utils.ts lines 3-8: the 15 s timer fires while the task is still pending.
\* Promise.race rejects; the task itself is not cancelled and either resumes
\* later (it is kept in `late`) or never does.
Timeout ==
    /\ pcMain = "sweep"
    /\ world \in {Faulty, Slow}
    /\ fg # NoTask
    /\ fg.pc \notin Terminal
    /\ "limit" \in timers
    /\ late' = IF world = Slow /\ late = {} THEN {Detached(fg)} ELSE late
    /\ pcMain' = "sleep"
    /\ stopSleep' = TRUE
    /\ idx' = 0
    /\ fg' = NoTask
    /\ timers' = (timers \ {"limit"}) \cup {"sleep"}
    /\ UNCHANGED <<mem, disk, running, lastSeen, world>>

\* Line 278: the sleep timer fires; line 281 clears stopSleep.  A time limit
\* left pending was armed earlier with the shorter delay and has fired before.
SleepExpire ==
    /\ pcMain = "sleep"
    /\ "sleep" \in timers
    /\ "limit" \notin timers
    /\ pcMain' = "loop"
    /\ stopSleep' = FALSE
    /\ timers' = timers \ {"sleep"}
    /\ UNCHANGED <<mem, disk, idx, running, fg, late, lastSeen, world>>

\* utils.ts lines 3-7: the timer of a time limit whose task rejected fires
\* during the sleep; its resolve() settles a promise nothing awaits.
LimitExpire ==
    /\ pcMain = "sleep"
    /\ "limit" \in timers
    /\ timers' = timers \ {"limit"}
    /\ UNCHANGED <<mem, disk, pcMain, idx, running, stopSleep, fg, late, lastSeen, world>>

\* A SIGTERM handler that clears the flag and leaves a pending sleep alone.
SigtermFlagOnly ==
    /\ pcMain \in {"sweep", "cleanup", "sleep"}
    /\ world # Slow
    /\ running' = FALSE
    /\ UNCHANGED <<mem, disk, pcMain, idx, stopSleep, fg, late, lastSeen, timers, world>>

\* Lines 261-267: the SIGTERM handler.
Sigterm ==
    /\ pcMain \in {"sweep", "cleanup", "sleep"}
    /\ world # Slow
    /\ running' = FALSE
    /\ IF stopSleep
       THEN pcMain' = "loop" /\ stopSleep' = FALSE
       ELSE UNCHANGED <<pcMain, stopSleep>>
    /\ UNCHANGED <<mem, disk, idx, fg, late, lastSeen, timers, world>>

(* ------------------------------------------------------------------ *)
(* update() (lines 70-221), one action per resumed await              *)
(* ------------------------------------------------------------------ *)

\* Whether the recovered environment fixes what is observed of entity e.
Fixed(e) == world.kind = "healed" /\ world.e = e

\* The recovery record once task t has delivered to its current destination.
Paid(t) ==
    IF Fixed(t.e) /\ t.obs = world.obs
    THEN [world EXCEPT !.owed = @ \ {t.cur[1]}]
    ELSE world

\* The task's new activation record replaces its old one; a detached task
\* that has ended is forgotten.
Commit(t, nt) ==
    IF t.late
    THEN /\ late' = (late \ {t}) \cup (IF nt.pc \in Terminal THEN {} ELSE {nt})
         /\ UNCHANGED fg
    ELSE /\ fg' = nt
         /\ UNCHANGED late

\* The dispatcher operation awaited at a program point.
OpOf(pc) ==
    IF pc \in {"editC", "editG"} THEN "edit"
    ELSE IF pc \in {"sendC", "sendG"} THEN "send"
    ELSE pc

\* The task calls a dispatcher operation on destination pair[1] (message
\* pair[2]) and awaits it at program point pc.
Issue(t, pc, pair, rest) ==
    [t EXCEPT !.pc = pc, !.cur = pair, !.todo = rest,
              !.calls = Append(@, [op |-> OpOf(pc), dest |-> pair[1], msg |-> pair[2]])]

\* Message ids the platform can return for a new message in destination d:
\* an id of a message that exists already, such as one recorded for d, is
\* never returned again.
FreshIds(d) ==
    {m \in 1..MaxMsgId :
        \A n \in DOMAIN mem :
            /\ (d \in DOMAIN mem[n].channels => mem[n].channels[d] # m)
            /\ (d \in DOMAIN mem[n].groups => mem[n].groups[d] # m)}

\* Lines 93-125, from the top of an iteration: the next entry with an id is
\* unpinned; after the last one update() returns.
UnpinCont(t) ==
    IF t.todo # <<>>
    THEN Issue(t, "unpin", Head(t.todo), Tail(t.todo))
    ELSE [t EXCEPT !.pc = "returned", !.cur = NoCur]

\* Lines 169-172: write if any message was edited, then return.
EditEnd(t) ==
    [t EXCEPT !.pc = IF t.changes THEN "editWrite" ELSE "returned", !.cur = NoCur]

\* An edit loop that edits the channel messages only.
EditContChannelsOnly(t, data) ==
    IF t.todo # <<>>
    THEN Issue(t, t.pc, Head(t.todo), Tail(t.todo))
    ELSE EditEnd([t EXCEPT !.atG = data[t.e].groups])

\* Lines 149-172, from the top of an iteration.  The loop over the groups
\* takes Object.entries(state.groups) when the loop over the channels ends.
EditCont(t, data) ==
    IF t.todo # <<>>
    THEN Issue(t, t.pc, Head(t.todo), Tail(t.todo))
    ELSE IF t.pc = "editC"
    THEN LET G == NonNull(Entries(data[t.e].groups))
         IN IF G # <<>>
            THEN Issue([t EXCEPT !.atG = data[t.e].groups], "editG", Head(G), Tail(G))
            ELSE EditEnd([t EXCEPT !.atG = data[t.e].groups])
    ELSE EditEnd(t)

\* A fan-out that sends to the channels only.
SendContChannelsOnly(t) ==
    IF t.todo # <<>>
    THEN Issue(t, "sendC", Head(t.todo), Tail(t.todo))
    ELSE [t EXCEPT !.pc = "sendWrite", !.cur = NoCur]

\* Lines 194-220, from the top of an iteration: channels first, then groups
\* (each group send is followed by its pin), then the write of line 220.
SendCont(t) ==
    IF t.todo # <<>>
    THEN Issue(t, IF t.pc = "sendC" THEN "sendC" ELSE "sendG", Head(t.todo), Tail(t.todo))
    ELSE IF t.pc = "sendC" /\ groupIds(t.e) # <<>>
    THEN LET G == Targets(groupIds(t.e))
         IN Issue(t, "sendG", Head(G), Tail(G))
    ELSE [t EXCEPT !.pc = "sendWrite", !.cur = NoCur]

\* Lines 180-191, the cleanup before a new notification.  The first loop
\* deletes from state.channels the keys that are not in channelIds.  The second
\* loop walks state.groups, tests each key against channelIds (not groupIds)
\* and deletes the key from state.channels (not state.groups).
Pruned(st, e) ==
    LET ch1 == DeleteKeys(st.channels, DOMAIN st.channels \ Range(channelIds(e)))
        ch2 == DeleteKeys(ch1, DOMAIN st.groups \ Range(channelIds(e)))
    IN [st EXCEPT !.channels = ch2]

\* A duplicate test that also compares the stream id.
AlreadyNotifiedSameStream(st, obs) ==
    st.lastStreamTitle = obs.title /\ st.lastStreamId = obs.id

\* Line 135: state.lastStreamTitle === title
AlreadyNotified(st, obs) == st.lastStreamTitle = obs.title

\* Line 145: state.lastStreamId === stream.id
SameStream(st, obs) == st.lastStreamId = obs.id

\* An empty lookup that lacks the return of line 80.
UsersEmptyFallsThrough(t) ==
    /\ t.pc = "users"
    /\ world = Faulty
    /\ Commit(t, [t EXCEPT !.pc = "stream", !.branch = "empty"])
    /\ UNCHANGED <<mem, disk, pcMain, idx, running, stopSleep, lastSeen, timers, world>>

\* Lines 78-81: the name lookup answered with an empty list.
UsersEmpty(t) ==
    /\ t.pc = "users"
    /\ world = Faulty
    /\ Commit(t, [t EXCEPT !.pc = "returned", !.branch = "empty"])
    /\ UNCHANGED <<mem, disk, pcMain, idx, running, stopSleep, lastSeen, timers, world>>

\* Lines 83-87: the lookup found the user; getStreamByUserId is called.
UsersFound(t) ==
    /\ t.pc = "users"
    /\ Commit(t, [t EXCEPT !.pc = "stream"])
    /\ UNCHANGED <<mem, disk, pcMain, idx, running, stopSleep, lastSeen, timers, world>>

\* Lines 77 and 87: a call of the streaming platform rejects; update() has no
\* handler, so it rejects too.
ApiFails(t) ==
    /\ t.pc \in {"users", "stream"}
    /\ world = Faulty
    /\ Commit(t, [t EXCEPT !.pc = "threw"])
    /\ UNCHANGED <<mem, disk, pcMain, idx, running, stopSleep, lastSeen, timers, world>>

\* The task's record once getStreamByUserId has answered obs (history: the
\* previous answer and the state the answer is compared with).
Observed(t, obs) == [t EXCEPT !.obs = obs, !.prev = lastSeen[t.e], !.at = mem[t.e]]

\* Lines 88-128: no stream.  The loop runs over Object.entries(state.groups)
\* as taken here, skipping entries without id.
StreamOffline(t) ==
    /\ t.pc = "stream"
    /\ ~Fixed(t.e)
    /\ LET G == NonNull(Entries(mem[t.e].groups))
           t1 == [Observed(t, Offline) EXCEPT !.branch = "offline", !.todo = G]
       IN Commit(t, UnpinCont(t1))
    /\ lastSeen' = [lastSeen EXCEPT ![t.e] = Null]
    /\ UNCHANGED <<mem, disk, pcMain, idx, running, stopSleep, timers, world>>

\* Lines 130-139: a stream whose title equals state.lastStreamTitle.
StreamDuplicate(t, obs) ==
    /\ t.pc = "stream"
    /\ obs \in Streams(t.e, world)
    /\ Fixed(t.e) => obs = world.obs
    /\ AlreadyNotified(mem[t.e], obs)
    /\ Commit(t, [Observed(t, obs) EXCEPT !.pc = "returned", !.branch = "dup"])
    /\ lastSeen' = [lastSeen EXCEPT ![t.e] = obs.id]
    /\ UNCHANGED <<mem, disk, pcMain, idx, running, stopSleep, timers, world>>

\* Lines 140-173: a new title on the stream recorded in lastStreamId.
StreamRetitled(t, obs) ==
    /\ t.pc = "stream"
    /\ obs \in Streams(t.e, world)
    /\ Fixed(t.e) => obs = world.obs
    /\ ~AlreadyNotified(mem[t.e], obs)
    /\ SameStream(mem[t.e], obs)
    /\ mem' = [mem EXCEPT ![t.e].lastStreamTitle = obs.title]
    /\ LET C == NonNull(Entries(mem[t.e].channels))
           t1 == [Observed(t, obs) EXCEPT !.branch = "edit", !.pc = "editC", !.todo = C]
           nt == EditCont(t1, mem)
       IN /\ Commit(t, nt)
          /\ disk' = IF nt.pc = "editWrite" THEN mem' ELSE disk
    /\ lastSeen' = [lastSeen EXCEPT ![t.e] = obs.id]
    /\ UNCHANGED <<pcMain, idx, running, stopSleep, timers, world>>

\* Lines 140-143 and 174-220: a stream other than the one recorded.
StreamNew(t, obs) ==
    /\ t.pc = "stream"
    /\ obs \in Streams(t.e, world)
    /\ Fixed(t.e) => obs = world.obs
    /\ ~AlreadyNotified(mem[t.e], obs)
    /\ ~SameStream(mem[t.e], obs)
    /\ mem' = [mem EXCEPT ![t.e] =
                 Pruned([@ EXCEPT !.lastStreamTitle = obs.title, !.lastStreamId = obs.id], t.e)]
    /\ LET C == Targets(channelIds(t.e))
           t1 == [Observed(t, obs) EXCEPT !.branch = "new", !.pc = "sendC", !.todo = C]
           nt == SendCont(t1)
       IN /\ Commit(t, nt)
          /\ disk' = IF nt.pc = "sendWrite" THEN mem' ELSE disk
    /\ lastSeen' = [lastSeen EXCEPT ![t.e] = obs.id]
    /\ UNCHANGED <<pcMain, idx, running, stopSleep, timers, world>>

\* An unpin step that clears the entry in memory without writing the snapshot.
UnpinReturnUnsaved(t, ok) ==
    /\ t.pc = "unpin"
    /\ ~ok => world = Faulty
    /\ mem' = [mem EXCEPT ![t.e].groups = SetKey(@, t.cur[1], NoMsg)]
    /\ Commit(t, [t EXCEPT !.pc = "unpinWrite",
                            !.failed = IF ok THEN @ ELSE @ \cup {t.cur[1]}])
    /\ UNCHANGED <<disk, pcMain, idx, running, stopSleep, lastSeen, timers, world>>

\* Lines 99-105: unpinChatMessage settled; a rejection is caught and logged.
\* Either way the entry is set to null and the snapshot is written.
UnpinReturn(t, ok) ==
    /\ t.pc = "unpin"
    /\ ~ok => world = Faulty
    /\ mem' = [mem EXCEPT ![t.e].groups = SetKey(@, t.cur[1], NoMsg)]
    /\ disk' = mem'
    /\ Commit(t, [t EXCEPT !.pc = "unpinWrite",
                            !.failed = IF ok THEN @ ELSE @ \cup {t.cur[1]}])
    /\ UNCHANGED <<pcMain, idx, running, stopSleep, lastSeen, timers, world>>

\* Lines 154-157 and 164-167: editMessageText resolved.
EditReturn(t) ==
    /\ t.pc \in {"editC", "editG"}
    /\ LET nt == EditCont([t EXCEPT !.changes = TRUE], mem)
       IN /\ Commit(t, nt)
          /\ disk' = IF nt.pc = "editWrite" THEN mem ELSE disk
    /\ world' = Paid(t)
    /\ UNCHANGED <<mem, pcMain, idx, running, stopSleep, lastSeen, timers>>

\* Lines 195-198: sendMessage to a channel resolved with message id m.
SendChannelReturn(t, m) ==
    /\ t.pc = "sendC"
    /\ m \in FreshIds(t.cur[1])
    /\ mem' = [mem EXCEPT ![t.e].channels = SetKey(@, t.cur[1], m)]
    /\ LET nt == SendCont(t)
       IN /\ Commit(t, nt)
          /\ disk' = IF nt.pc = "sendWrite" THEN mem' ELSE disk
    /\ world' = Paid(t)
    /\ UNCHANGED <<pcMain, idx, running, stopSleep, lastSeen, timers>>

\* A group send whose pin is called with the id held before the send.
SendGroupReturnPinsStale(t, m) ==
    /\ t.pc = "sendG"
    /\ m \in FreshIds(t.cur[1])
    /\ mem' = [mem EXCEPT ![t.e].groups = SetKey(@, t.cur[1], m)]
    /\ Commit(t, Issue(t, "pin", t.cur, t.todo))
    /\ UNCHANGED <<disk, pcMain, idx, running, stopSleep, lastSeen, timers, world>>

\* Lines 213-217: sendMessage to a group resolved with message id m; the id is
\* recorded and pinChatMessage is called with it.
SendGroupReturn(t, m) ==
    /\ t.pc = "sendG"
    /\ m \in FreshIds(t.cur[1])
    /\ mem' = [mem EXCEPT ![t.e].groups = SetKey(@, t.cur[1], m)]
    /\ Commit(t, Issue(t, "pin", <<t.cur[1], m>>, t.todo))
    /\ UNCHANGED <<disk, pcMain, idx, running, stopSleep, lastSeen, timers, world>>

\* Line 217: pinChatMessage resolved.
PinReturn(t) ==
    /\ t.pc = "pin"
    /\ LET nt == SendCont(t)
       IN /\ Commit(t, nt)
          /\ disk' = IF nt.pc = "sendWrite" THEN mem ELSE disk
    /\ world' = Paid(t)
    /\ UNCHANGED <<mem, pcMain, idx, running, stopSleep, lastSeen, timers>>

\* Lines 154, 164, 195, 213, 217: a dispatcher call outside a try block
\* rejects, so update() rejects at that await.
DispatchFails(t) ==
    /\ t.pc \in {"editC", "editG", "sendC", "sendG", "pin"}
    /\ world = Faulty
    /\ Commit(t, [t EXCEPT !.pc = "threw", !.failed = @ \cup {t.cur[1]}])
    /\ UNCHANGED <<mem, disk, pcMain, idx, running, stopSleep, lastSeen, timers, world>>

\* Lines 105, 170, 220: statusDb.write() resolved.
WriteReturn(t) ==
    /\ t.pc \in {"unpinWrite", "editWrite", "sendWrite"}
    /\ Commit(t, IF t.pc = "unpinWrite" THEN UnpinCont(t) ELSE [t EXCEPT !.pc = "returned"])
    /\ UNCHANGED <<mem, disk, pcMain, idx, running, stopSleep, lastSeen, timers, world>>

\* The environment recovers right after a dispatcher call made a fan-out of
\* entity e fail: from now on the streaming platform keeps answering what that
\* cycle observed, every dispatcher call succeeds, no update() runs into its
\* time limit.  `owed` are the destinations the failed fan-out left out.
Heal ==
    /\ world = Faulty
    /\ pcMain = "sweep"
    /\ fg # NoTask
    /\ fg.pc = "threw"
    /\ fg.branch \in {"new", "edit"}
    /\ world' = [kind |-> "healed", e |-> fg.e, obs |-> fg.obs, owed |-> LeftOut(fg)]
    /\ UNCHANGED <<mem, disk, pcMain, idx, running, stopSleep, fg, late, lastSeen, timers>>

LiveObs == Observations \ {Offline}

Next ==
    \/ Startup
    \/ SweepStart
    \/ Exit
    \/ NextEntity
    \/ SweepEnd
    \/ CleanupWritten
    \/ SweepAbort
    \/ Timeout
    \/ SleepExpire
    \/ LimitExpire
    \/ Sigterm
    \/ \E t \in Tasks : UsersEmpty(t)
    \/ \E t \in Tasks : UsersFound(t)
    \/ \E t \in Tasks : ApiFails(t)
    \/ \E t \in Tasks : StreamOffline(t)
    \/ \E t \in Tasks : \E obs \in LiveObs : StreamDuplicate(t, obs)
    \/ \E t \in Tasks : \E obs \in LiveObs : StreamRetitled(t, obs)
    \/ \E t \in Tasks : \E obs \in LiveObs : StreamNew(t, obs)
    \/ \E t \in Tasks : \E ok \in BOOLEAN : UnpinReturn(t, ok)
    \/ \E t \in Tasks : EditReturn(t)
    \/ \E t \in Tasks : \E m \in 1..MaxMsgId : SendChannelReturn(t, m)
    \/ \E t \in Tasks : \E m \in 1..MaxMsgId : SendGroupReturn(t, m)
    \/ \E t \in Tasks : PinReturn(t)
    \/ \E t \in Tasks : DispatchFails(t)
    \/ \E t \in Tasks : WriteReturn(t)

Spec == Init /\ [][Next]_vars

(* ------------------------------------------------------------------ *)
(* Vocabulary of the properties                                       *)
(* ------------------------------------------------------------------ *)

\* The awaited update() exists before and after the step.
FgKept == fg # NoTask /\ fg' # NoTask

\* The step resumes the awaited update() after getStreamByUserId answered
\* with a stream.
FgSeesLive == FgKept /\ fg.pc = "stream" /\ fg'.obs.live

\* The step resumes the awaited update() after getStreamByUserId answered
\* with no stream.
FgSeesOffline == FgKept /\ fg.pc = "stream" /\ fg'.obs = Offline

\* The step is the one in which the awaited update() returns.
FgReturns == FgKept /\ fg.pc \notin Terminal /\ fg'.pc = "returned"

\* The dispatcher calls the step issues from the awaited update().
NewCalls == SubSeq(fg'.calls, Len(fg.calls) + 1, Len(fg'.calls))

\* The calls of a log restricted to one operation, as <<dest, msg>> pairs.
CallsOf(calls, op) ==
    LET sel == SelectSeq(calls, LAMBDA c : c.op = op)
    IN [i \in 1..Len(sel) |-> <<sel[i].dest, sel[i].msg>>]

\* The step leaves the snapshot, in memory and on disk, as it is.
NoStateChange == mem' = mem /\ disk' = disk

(* ------------------------------------------------------------------ *)
(* C1                                                                 *)
(* ------------------------------------------------------------------ *)

\* C1: whenever update() observes the entity live with a title equal to the
\* state's lastStreamTitle, it returns at once, having issued no dispatcher
\* call, and the step changes nothing of the snapshot in memory or on disk,
\* whatever the observed stream id is.
C1_DuplicateSuppressed ==
    [][(FgSeesLive /\ fg'.obs.title = mem[fg.e].lastStreamTitle)
        => (fg'.pc = "returned" /\ fg'.calls = <<>> /\ NoStateChange)]_vars

\* C1 witness: a suppressed observation whose stream id is new, after a new
\* session of this run was notified (destination 100 holds its message, the
\* stale destination 300 is pruned) and the entity was then seen offline.
C1_Witness ==
    /\ fg # NoTask
    /\ fg.pc = "returned"
    /\ fg.obs.live
    /\ fg.obs.title = fg.at.lastStreamTitle
    /\ fg.at.lastStreamId \in StreamIds \ {fg.obs.id}
    /\ fg.prev = Null
    /\ DOMAIN fg.at.channels = {100}
    /\ fg.at.channels[100] # NoMsg
    /\ mem[fg.e] = fg.at

(* ------------------------------------------------------------------ *)
(* C2                                                                 *)
(* ------------------------------------------------------------------ *)

\* <<operation, destination>> of every call of a log, in order.
OpsOf(calls) == [i \in 1..Len(calls) |-> <<calls[i].op, calls[i].dest>>]

\* The calls of a complete new-session fan-out: one send per configured
\* channel, then for every configured group one send followed by its pin.
NewSessionPlan(e) ==
    LET c == channelIds(e)
        g == groupIds(e)
    IN [i \in 1..Len(c) |-> <<"send", c[i]>>]
       \o [i \in 1..(2 * Len(g)) |->
              IF i % 2 = 1 THEN <<"send", g[(i + 1) \div 2]>> ELSE <<"pin", g[i \div 2]>>]

\* The step observes a stream whose id differs from the one observed just
\* before, from lastStreamId, and whose title differs from lastStreamTitle.
C2_Observes ==
    /\ FgSeesLive
    /\ fg'.prev \in StreamIds \ {fg'.obs.id}
    /\ fg'.obs.id # mem[fg.e].lastStreamId
    /\ fg'.obs.title # mem[fg.e].lastStreamTitle

\* The step resumes the awaited update() after a send of a new session
\* resolved.
C2_SendResolves ==
    /\ FgKept
    /\ fg' # fg
    /\ fg.pc \in {"sendC", "sendG"}
    /\ fg'.pc # "threw"

\* The id a map records for destination d (NoMsg: none).
IdAt(map, d) == IF d \in DOMAIN map THEN map[d] ELSE NoMsg

\* The entry of the destination the resolved send went to.
C2_Entry(st) ==
    IF fg.pc = "sendC" THEN IdAt(st.channels, fg.cur[1]) ELSE IdAt(st.groups, fg.cur[1])

\* C2 (amended): when update() observes a stream whose id differs from the
\* previously observed one and from lastStreamId, under a title other than
\* lastStreamTitle, it takes the new-session branch and sets lastStreamId to
\* the observed id; every send that resolves records the returned id in the
\* destination's entry, an id other than the one recorded before, and a group
\* send is followed by the pin of exactly that id; when the cycle returns it
\* has issued one send per configured channel, then one send and one pin per
\* configured group, and nothing else, and lastStreamId is the observed id.
C2_NewSession ==
    [][/\ C2_Observes =>
            /\ fg'.branch = "new"
            /\ mem'[fg.e].lastStreamId = fg'.obs.id
            /\ mem'[fg.e].lastStreamTitle = fg'.obs.title
       /\ C2_SendResolves =>
            /\ C2_Entry(mem'[fg.e]) \in 1..MaxMsgId
            /\ C2_Entry(mem'[fg.e]) # C2_Entry(fg.at)
            /\ fg.pc = "sendG" =>
                  /\ fg'.pc = "pin"
                  /\ NewCalls = <<[op |-> "pin", dest |-> fg.cur[1],
                                   msg |-> mem'[fg.e].groups[fg.cur[1]]]>>
       /\ (FgReturns /\ fg'.branch = "new") =>
            /\ OpsOf(fg'.calls) = NewSessionPlan(fg.e)
            /\ mem'[fg.e].lastStreamId = fg'.obs.id]_vars

\* C2 witness: a new session that followed another stream has returned; the
\* channel and the group held ids of the earlier session, which are replaced.
C2_Witness ==
    /\ fg # NoTask
    /\ fg.pc = "returned"
    /\ fg.branch = "new"
    /\ fg.prev \in StreamIds \ {fg.obs.id}
    /\ Len(fg.calls) = 3
    /\ IdAt(fg.at.channels, 100) # NoMsg
    /\ IdAt(fg.at.groups, 200) # NoMsg
    /\ mem[fg.e].channels[100] \notin {NoMsg, fg.at.channels[100]}
    /\ mem[fg.e].groups[200] = fg.calls[3].msg
    /\ mem[fg.e].groups[200] \notin {NoMsg, fg.at.groups[200]}
    /\ mem[fg.e].lastStreamId = fg.obs.id
    /\ disk = mem

\* C2 as stated: whenever a cycle that observed stream S2 right after an
\* observation of another stream S1 has returned, it has sent to every
\* configured destination, pinned in every group, and lastStreamId = S2.
C2_AnyTwoStreams ==
    (fg # NoTask /\ fg.pc = "returned" /\ fg.obs.live
        /\ fg.prev \in StreamIds \ {fg.obs.id})
    => (OpsOf(fg.calls) = NewSessionPlan(fg.e) /\ mem[fg.e].lastStreamId = fg.obs.id)

(* ------------------------------------------------------------------ *)
(* C3                                                                 *)
(* ------------------------------------------------------------------ *)

\* The step resumes the awaited update() inside the given branch.
FgStepsIn(branch) == FgKept /\ fg' # fg /\ fg.branch = branch

\* C3: when update() observes the stream recorded in lastStreamId under a
\* title other than lastStreamTitle, it takes the edit branch and sets
\* lastStreamTitle to the new title; every call of the branch is an edit of
\* a (destination, message id) pair the state records; no step of the branch
\* changes a recorded message id or lastStreamId; and when the cycle returns
\* its calls are exactly the edits of the non-null entries of channels
\* followed by those of groups.
C3_TitleEdit ==
    [][/\ (FgSeesLive /\ fg'.obs.id = mem[fg.e].lastStreamId
                      /\ fg'.obs.title # mem[fg.e].lastStreamTitle) =>
            /\ fg'.branch = "edit"
            /\ mem'[fg.e] = [mem[fg.e] EXCEPT !.lastStreamTitle = fg'.obs.title]
       /\ (FgKept /\ fg' # fg /\ fg'.branch = "edit") =>
            \A i \in 1..Len(NewCalls) :
                /\ NewCalls[i].op = "edit"
                /\ NewCalls[i].msg # NoMsg
                /\ NewCalls[i].msg \in {IdAt(mem[fg.e].channels, NewCalls[i].dest),
                                        IdAt(mem[fg.e].groups, NewCalls[i].dest)}
       /\ FgStepsIn("edit") => mem'[fg.e] = mem[fg.e]
       /\ (FgReturns /\ fg'.branch = "edit") =>
            /\ CallsOf(fg'.calls, "edit")
                 = NonNull(Entries(fg'.at.channels)) \o NonNull(Entries(fg'.atG))
            /\ Len(fg'.calls) = Len(CallsOf(fg'.calls, "edit"))]_vars

\* C3 witness: an edit cycle has returned after editing the messages of two
\* channels, while the state holds a group entry without id, which it
\* skipped.
C3_Witness ==
    /\ fg # NoTask
    /\ fg.pc = "returned"
    /\ fg.branch = "edit"
    /\ CallsOf(fg.calls, "edit") = <<<<100, 1>>, <<300, 1>>>>
    /\ \E g \in DOMAIN fg.atG : fg.atG[g] = NoMsg
    /\ mem[fg.e].lastStreamTitle = fg.obs.title
    /\ fg.at.lastStreamTitle # fg.obs.title
    /\ disk = mem

(* ------------------------------------------------------------------ *)
(* C4                                                                 *)
(* ------------------------------------------------------------------ *)

\* C4: when update() observes the entity offline, the observing step changes
\* nothing, and with no group entry that holds an id it returns at once
\* without a call; every step of the offline branch leaves channels,
\* lastStreamId and lastStreamTitle as they are; the step after an unpin
\* settled, whether it succeeded or not, clears that group's entry and no
\* other and writes the snapshot; and when the cycle returns its calls are
\* exactly the unpins of the group entries that held an id when the entity
\* was observed, each with the recorded id.
C4_OfflineUnwind ==
    [][/\ FgSeesOffline =>
            /\ NoStateChange
            /\ fg'.branch = "offline"
            /\ NonNull(Entries(mem[fg.e].groups)) = <<>> =>
                  (fg'.pc = "returned" /\ fg'.calls = <<>>)
       /\ FgStepsIn("offline") =>
            /\ mem'[fg.e].channels = mem[fg.e].channels
            /\ mem'[fg.e].lastStreamId = mem[fg.e].lastStreamId
            /\ mem'[fg.e].lastStreamTitle = mem[fg.e].lastStreamTitle
            /\ \A n \in DOMAIN mem \ {fg.e} : mem'[n] = mem[n]
            /\ IF fg.pc = "unpin"
               THEN /\ mem'[fg.e].groups = SetKey(mem[fg.e].groups, fg.cur[1], NoMsg)
                    /\ disk' = mem'
               ELSE NoStateChange
       /\ (FgReturns /\ fg'.branch = "offline") =>
            /\ CallsOf(fg'.calls, "unpin") = NonNull(Entries(fg'.at.groups))
            /\ Len(fg'.calls) = Len(CallsOf(fg'.calls, "unpin"))]_vars

\* C4 witness: an offline cycle has returned after unpinning in two groups,
\* the first of which failed; both entries are cleared in memory and on disk,
\* the channel entries are kept.
C4_Witness ==
    /\ fg # NoTask
    /\ fg.pc = "returned"
    /\ fg.branch = "offline"
    /\ CallsOf(fg.calls, "unpin") = <<<<200, 1>>, <<400, 1>>>>
    /\ fg.failed = {200}
    /\ mem[fg.e].groups = (200 :> NoMsg @@ 400 :> NoMsg)
    /\ mem[fg.e].channels = fg.at.channels
    /\ fg.at.channels = (100 :> 1 @@ 300 :> 1)
    /\ disk = mem

(* ------------------------------------------------------------------ *)
(* C5                                                                 *)
(* ------------------------------------------------------------------ *)

\* C5: after a new-session cycle has returned, the keys of channels are
\* configured channel ids and the keys of groups are configured group ids,
\* and the cycle called no destination that is not configured.
C5_Pruned ==
    (fg # NoTask /\ fg.pc = "returned" /\ fg.branch = "new") =>
        /\ DOMAIN mem[fg.e].channels \subseteq Range(channelIds(fg.e))
        /\ DOMAIN mem[fg.e].groups \subseteq Range(groupIds(fg.e))
        /\ \A i \in 1..Len(fg.calls) :
              fg.calls[i].dest \in Range(channelIds(fg.e)) \cup Range(groupIds(fg.e))

(* ------------------------------------------------------------------ *)
(* C6                                                                 *)
(* ------------------------------------------------------------------ *)

\* The groups record the edit branch of task t walks at line 159: the one
\* taken when the loop over the channels ended, or, while the task has not
\* come that far, the one that loop's end would take.
EditGroups(t) == IF InChannelLoop(t) THEN mem[t.e].groups ELSE t.atG

\* The destinations the cycle of task t has to process.
Destinations(t) ==
    IF t.branch = "new" THEN Range(channelIds(t.e)) \cup Range(groupIds(t.e))
    ELSE IF t.branch = "edit"
    THEN {d \in DOMAIN t.at.channels : t.at.channels[d] # NoMsg}
         \cup {d \in DOMAIN EditGroups(t) : EditGroups(t)[d] # NoMsg}
    ELSE IF t.branch = "offline"
    THEN {d \in DOMAIN t.at.groups : t.at.groups[d] # NoMsg}
    ELSE {}

\* C6: when a cycle in which a dispatcher call failed has ended, every
\* destination of the cycle was processed: each has a call in the cycle.
C6_FailureIsolated ==
    (fg # NoTask /\ fg.pc \in Terminal /\ fg.failed # {}) =>
        Destinations(fg) \subseteq {fg.calls[i].dest : i \in 1..Len(fg.calls)}

(* ------------------------------------------------------------------ *)
(* C7                                                                 *)
(* ------------------------------------------------------------------ *)

\* Runs in which the environment may recover: they start in a faulty
\* environment from a state.json that records no notified session.
HealInit ==
    /\ Init
    /\ world = Faulty
    /\ NoSession(disk)

HealNext == Next \/ Heal

\* The steps the event loop takes by itself once they are possible: timers
\* fire, the scheduler goes on, calls resolve.  A signal, a failing call and
\* a timeout are not among them.
Progress ==
    \/ Startup
    \/ SweepStart
    \/ Exit
    \/ NextEntity
    \/ SweepEnd
    \/ CleanupWritten
    \/ SweepAbort
    \/ SleepExpire
    \/ LimitExpire
    \/ \E t \in Tasks : UsersFound(t)
    \/ \E t \in Tasks : StreamOffline(t)
    \/ \E t \in Tasks : \E obs \in LiveObs : StreamDuplicate(t, obs)
    \/ \E t \in Tasks : \E obs \in LiveObs : StreamRetitled(t, obs)
    \/ \E t \in Tasks : \E obs \in LiveObs : StreamNew(t, obs)
    \/ \E t \in Tasks : UnpinReturn(t, TRUE)
    \/ \E t \in Tasks : EditReturn(t)
    \/ \E t \in Tasks : \E m \in 1..MaxMsgId : SendChannelReturn(t, m)
    \/ \E t \in Tasks : \E m \in 1..MaxMsgId : SendGroupReturn(t, m)
    \/ \E t \in Tasks : PinReturn(t)
    \/ \E t \in Tasks : WriteReturn(t)

HealSpec == HealInit /\ [][HealNext]_vars /\ WF_vars(Progress)

\* C7: once the environment has recovered after a dispatcher failure
\* interrupted a fan-out, with the entity still observed on the same stream
\* under the same title, the destinations the fan-out left out are
\* eventually all delivered to, unless the program is told to stop.
C7_SelfHealing ==
    (world.kind = "healed" /\ world.owed # {})
        ~> ((world.kind = "healed" /\ world.owed = {}) \/ ~running)

(* ------------------------------------------------------------------ *)
(* C8                                                                 *)
(* ------------------------------------------------------------------ *)

\* updateAll has not returned or thrown yet.
Sweeping == pcMain \in {"sweep", "cleanup"}

\* C8: a sweep ends (the scheduler goes to sleep) only after updateAll's
\* loop has reached the last configured entity.
C8_SweepIsolated ==
    [][(Sweeping /\ pcMain' = "sleep") => idx = Len(ConfigChannels)]_vars

(* ------------------------------------------------------------------ *)
(* C9                                                                 *)
(* ------------------------------------------------------------------ *)

\* The step reports the timeout of the awaited update().
TimeoutReported == fg # NoTask /\ fg.pc \notin Terminal /\ fg' = NoTask

\* C9: when the timeout of an update() is reported, the entity's state in
\* memory and on disk is what it was when the cycle began, and no step of an
\* update() whose timeout was reported changes the state or calls the
\* dispatcher.
C9_TimeoutLeavesState ==
    [][/\ TimeoutReported => (mem[fg.e] = fg.pre /\ disk[fg.e] = fg.preDisk)
       /\ late' # late /\ fg' = fg /\ late # {} =>
            /\ NoStateChange
            /\ \A t \in late' : \A u \in late : Len(t.calls) <= Len(u.calls)]_vars

(* ------------------------------------------------------------------ *)
(* C10                                                                *)
(* ------------------------------------------------------------------ *)

\* C10: when the name lookup answers with an empty list, update() returns
\* in that step, having issued no dispatcher call, and the step changes
\* nothing of the snapshot in memory or on disk.
C10_EmptyLookup ==
    [][(FgKept /\ fg.pc = "users" /\ fg'.branch = "empty")
        => (fg'.pc = "returned" /\ fg'.calls = <<>> /\ NoStateChange)]_vars

\* C10 witness: the update() of the first entity returned on an empty lookup
\* while the state holds a notified session.
C10_Witness ==
    /\ fg # NoTask
    /\ fg.pc = "returned"
    /\ fg.branch = "empty"
    /\ fg.calls = <<>>
    /\ mem[fg.e] = fg.pre
    /\ disk[fg.e] = fg.preDisk
    /\ fg.pre.lastStreamId \in StreamIds
    /\ fg.pre.channels # EmptyMap

(* ------------------------------------------------------------------ *)
(* C11                                                                *)
(* ------------------------------------------------------------------ *)

\* C11: whenever a cycle that observed the entity (live or offline) has
\* returned, lastStreamId is non-null exactly if the cycle observed the
\* entity live.
C11_StreamIdIffLive ==
    (fg # NoTask /\ fg.pc = "returned" /\ fg.branch \in {"offline", "dup", "edit", "new"})
        => ((mem[fg.e].lastStreamId # Null) <=> fg.obs.live)

(* ------------------------------------------------------------------ *)
(* C12                                                                *)
(* ------------------------------------------------------------------ *)

\* The awaited update() returns in this step from a cycle of entity e1
\* (channelIds = [100], groupIds = [200]) in which no dispatcher call failed.
C12_Returns(branch) ==
    FgReturns /\ fg'.e = "e1" /\ fg'.branch = branch /\ fg'.failed = {}

\* C12: with channelIds = [100] and groupIds = [200] and no failing call, a
\* cycle that observes a stream over the empty state returns after exactly
\* send(100), send(200), pin(200, id of the send to 200), in that order, the
\* pin being called with the id the send to 200 returned and recorded; a
\* following cycle that observes the same stream under another title over
\* the recorded ids a and b returns after exactly edit(100, a), edit(200, b);
\* a following cycle that observes the entity offline over those ids returns
\* after exactly unpin(200, b), and then groups[200] is null and
\* channels[100] is still a.
C12_Scenario ==
    [][/\ (C12_Returns("new") /\ fg'.at = Defaulted(NoRecord)) =>
            /\ OpsOf(fg'.calls) = <<<<"send", 100>>, <<"send", 200>>, <<"pin", 200>>>>
            /\ fg'.calls[3].msg # NoMsg
       /\ (FgKept /\ fg.e = "e1" /\ fg.pc = "sendG" /\ fg'.pc = "pin") =>
            /\ mem'["e1"].groups[200] \in 1..MaxMsgId
            /\ NewCalls = <<[op |-> "pin", dest |-> 200, msg |-> mem'["e1"].groups[200]]>>
       /\ (C12_Returns("edit") /\ fg'.prev = fg'.obs.id
              /\ DOMAIN fg'.at.channels = {100} /\ DOMAIN fg'.atG = {200}
              /\ fg'.at.channels[100] # NoMsg /\ fg'.atG[200] # NoMsg) =>
            fg'.calls = <<[op |-> "edit", dest |-> 100, msg |-> fg'.at.channels[100]],
                          [op |-> "edit", dest |-> 200, msg |-> fg'.atG[200]]>>
       /\ (C12_Returns("offline") /\ fg'.prev \in StreamIds
              /\ DOMAIN fg'.at.channels = {100} /\ DOMAIN fg'.at.groups = {200}
              /\ fg'.at.channels[100] # NoMsg /\ fg'.at.groups[200] # NoMsg) =>
            /\ fg'.calls = <<[op |-> "unpin", dest |-> 200, msg |-> fg'.at.groups[200]]>>
            /\ mem'["e1"].groups[200] = NoMsg
            /\ mem'["e1"].channels = fg'.at.channels]_vars

\* C12 witness: the third cycle of the scenario has returned in a run with
\* no failing call that started with no session recorded: the state records
\* the second title, the entry of group 200 is cleared on disk too.
C12_Witness ==
    /\ world = Slow
    /\ late = {}
    /\ fg # NoTask
    /\ fg.pc = "returned"
    /\ fg.branch = "offline"
    /\ fg.prev = "S1"
    /\ fg.at = [lastStreamId |-> "S1", lastStreamTitle |-> "T2",
                channels |-> (100 :> 1), groups |-> (200 :> 1)]
    /\ fg.calls = <<[op |-> "unpin", dest |-> 200, msg |-> 1]>>
    /\ mem["e1"] = [fg.at EXCEPT !.groups = (200 :> NoMsg)]
    /\ disk = mem

(* ------------------------------------------------------------------ *)
(* C13                                                                *)
(* ------------------------------------------------------------------ *)

\* The destinations for which a send of the new-session fan-out of task t
\* has resolved.
Delivered(t) ==
    {t.calls[i].dest : i \in {j \in 1..Len(t.calls) : t.calls[j].op = "send"}}
        \ (IF t.pc \in {"sendC", "sendG"}
              \/ (t.pc = "threw" /\ t.calls[Len(t.calls)].op = "send")
           THEN {t.cur[1]}
           ELSE {})

\* What state.json can hold when the process dies while task t runs: a kill
\* during the write of line 220 leaves the content of before the write or the
\* new one.
CrashFiles(t) ==
    IF t.pc = "sendWrite"
    THEN {disk, [disk EXCEPT ![t.e] = t.preDisk]}
    ELSE {disk}

\* The process dies during a new-session fan-out and is started again: memory
\* and every pending task are lost, lines 31-57 run again and statusDb.read()
\* loads what state.json holds.  The environment remembers the stream of the
\* interrupted fan-out and the destinations that had received its
\* notification; after the restart no call fails.
Crash ==
    /\ world = Faulty
    /\ pcMain = "sweep"
    /\ fg # NoTask
    /\ fg.branch = "new"
    /\ fg.pc \notin Terminal
    /\ world' = [kind |-> "restarted", e |-> fg.e, obs |-> fg.obs, got |-> Delivered(fg)]
    /\ disk' \in CrashFiles(fg)
    /\ mem' = disk'
    /\ pcMain' = "boot"
    /\ idx' = 0
    /\ running' = TRUE
    /\ stopSleep' = FALSE
    /\ fg' = NoTask
    /\ late' = {}
    /\ lastSeen' = [e \in ConfigNames |-> Null]
    /\ timers' = {}

CrashNext == Next \/ Crash

\* Runs in which the process may crash once during a fan-out and restart.
CrashSpec == HealInit /\ [][CrashNext]_vars

\* C13: after a crash during a fan-out and the restart from state.json, a
\* new-session cycle for the stream of the interrupted fan-out sends again to
\* at most one destination that had received the notification before the
\* crash.
C13_AtMostOneRepeated ==
    (world.kind = "restarted" /\ fg # NoTask /\ fg.e = world.e
        /\ fg.branch = "new" /\ fg.obs.id = world.obs.id)
    => Cardinality(world.got \cap Delivered(fg)) <= 1

(* ------------------------------------------------------------------ *)
(* C14                                                                *)
(* ------------------------------------------------------------------ *)

\* The update() executions in progress: started, neither returned nor thrown.
InProgress == {t \in Tasks : t.pc \notin Terminal}

\* C14: at every moment at most one update() is in progress.
C14_Sequential == Cardinality(InProgress) <= 1

(* ------------------------------------------------------------------ *)
(* C15                                                                *)
(* ------------------------------------------------------------------ *)

\* C15: whatever ends a sweep, its end, its failure or a timeout, the
\* scheduler goes to the inter-sweep sleep; a sweep starts only from the top
\* of the loop with `running` set; the loop is left only when `running` is
\* cleared; and while no shutdown is requested every sleep is followed by a
\* next sweep.
C15_SchedulerSurvives ==
    /\ [][/\ (Sweeping /\ ~Sweeping') => pcMain' = "sleep"
          /\ (~Sweeping /\ Sweeping') => (pcMain = "loop" /\ running)
          /\ (pcMain # "exited" /\ pcMain' = "exited") => ~running]_vars
    /\ ((pcMain = "sleep" /\ running) ~> (pcMain = "sweep" \/ ~running))

\* C15 witness: a sweep has started after a sweep that a rejected dispatcher
\* call made fail, with no shutdown requested.
C15_Witness ==
    /\ world.kind = "healed"
    /\ running
    /\ pcMain = "sweep"
    /\ idx = 1
    /\ fg # NoTask
    /\ fg.pc = "users"

(* ------------------------------------------------------------------ *)
(* C16                                                                *)
(* ------------------------------------------------------------------ *)

\* The step is the SIGTERM handler clearing `running`.
ShutdownRequested == running /\ ~running'

\* C16: the shutdown request itself leaves the update() in progress, the
\* loop position and the snapshot alone, and wakes a pending sleep; once
\* `running` is cleared it stays cleared, a sweep in flight ends as any
\* sweep does, by going to the sleep, no sweep is started any more, and the
\* scheduler loop eventually exits.
C16_CooperativeShutdown ==
    /\ [][/\ ShutdownRequested =>
               /\ fg' = fg /\ late' = late /\ idx' = idx /\ NoStateChange
               /\ pcMain = "sleep" => pcMain' = "loop"
               /\ Sweeping => pcMain' = pcMain
          /\ ~running =>
               /\ ~running'
               /\ ~Sweeping => ~Sweeping'
               /\ (Sweeping /\ ~Sweeping') => pcMain' = "sleep"
               /\ (Sweeping /\ pcMain' = "sleep")
                     => (fg.pc \in Terminal \/ TimeoutReported
                            \/ pcMain = "cleanup")]_vars
    /\ (~running ~> (pcMain = "exited"))

\* C16 witness: the loop has exited on a shutdown request after the program
\* had notified a session.
C16_Witness ==
    /\ ~running
    /\ pcMain = "exited"
    /\ mem["e1"].lastStreamId \in StreamIds
    /\ IdAt(mem["e1"].groups, 200) # NoMsg

(* ------------------------------------------------------------------ *)
(* C17                                                                *)
(* ------------------------------------------------------------------ *)

\* The fields of a ChannelState.
StateFields == {"lastStreamId", "lastStreamTitle", "channels", "groups"}

\* C17: the startup step gives every configured entity a record with the four
\* fields; an entity without record in the loaded snapshot gets null, null
\* and two empty maps; every field of a loaded record keeps its value, and a
\* missing field gets its default; records of other entities are kept as
\* loaded; and the result is written before the loop starts.
C17_StartupDefaulting ==
    [][(pcMain = "boot" /\ pcMain' # "boot") =>
          /\ pcMain' = "loop"
          /\ fg' = NoTask
          /\ DOMAIN mem' = DOMAIN disk \cup ConfigNames
          /\ \A n \in ConfigNames :
                /\ DOMAIN mem'[n] = StateFields
                /\ n \notin DOMAIN disk =>
                      mem'[n] = [lastStreamId |-> Null, lastStreamTitle |-> Null,
                                 channels |-> EmptyMap, groups |-> EmptyMap]
                /\ n \in DOMAIN disk =>
                      \A f \in StateFields :
                          mem'[n][f] = IF f \in DOMAIN disk[n] THEN disk[n][f]
                                       ELSE IF f \in {"channels", "groups"} THEN EmptyMap
                                       ELSE Null
          /\ \A n \in DOMAIN disk \ ConfigNames : mem'[n] = disk[n]
          /\ disk' = mem']_vars

\* C17 witness: the program has started from a snapshot in which e1 has a
\* record with a title only and e2 has none; e1 keeps its title and gets the
\* other defaults, e2 gets the default record, and the file holds the same.
C17_Witness ==
    /\ pcMain = "loop"
    /\ idx = 0
    /\ lastSeen = [e \in ConfigNames |-> Null]
    /\ mem["e1"] = [lastStreamId |-> Null, lastStreamTitle |-> "T1",
                    channels |-> EmptyMap, groups |-> EmptyMap]
    /\ mem["e2"] = [lastStreamId |-> Null, lastStreamTitle |-> Null,
                    channels |-> EmptyMap, groups |-> EmptyMap]
    /\ "old" \in DOMAIN mem
    /\ disk = mem

(* ------------------------------------------------------------------ *)
(* C18                                                                *)
(* ------------------------------------------------------------------ *)

\* C18: a record is removed from the snapshot only by the step that ends
\* updateAll's loop after the last entity, and whenever a sweep ends, the
\* snapshot in memory and on disk holds records of configured entities only.
C18_GarbageCollected ==
    [][/\ (DOMAIN mem' # DOMAIN mem /\ pcMain # "boot") =>
            (pcMain = "sweep" /\ idx = Len(ConfigChannels) /\ fg.pc = "returned")
       /\ (Sweeping /\ pcMain' = "sleep") =>
            /\ DOMAIN mem' \subseteq ConfigNames
            /\ DOMAIN disk' \subseteq ConfigNames]_vars

(* ------------------------------------------------------------------ *)
(* C19                                                                *)
(* ------------------------------------------------------------------ *)

\* The awaited update() ended because pinChatMessage rejected.
PinFailed ==
    /\ fg # NoTask
    /\ fg.pc = "threw"
    /\ fg.calls # <<>>
    /\ fg.calls[Len(fg.calls)].op = "pin"

\* C19: the groups map never records the id of a message whose pin failed.
C19_GroupEntryPinned ==
    PinFailed => IdAt(mem[fg.e].groups, fg.cur[1]) # fg.cur[2]

(* ------------------------------------------------------------------ *)
(* C20                                                                *)
(* ------------------------------------------------------------------ *)

\* Every configured destination of entity e has an entry in the record rec:
\* a new-session fan-out that ran to its end leaves one for each, and no code
\* removes the entry of a configured destination.
FanOutCompleted(rec, e) ==
    /\ Range(channelIds(e)) \subseteq DOMAIN rec.channels
    /\ Range(groupIds(e)) \subseteq DOMAIN rec.groups

\* C20: state.json never holds a lastStreamId for an entity while a
\* configured destination of the entity has no entry, that is, while the
\* fan-out for that stream has not sent to every destination.
C20_PersistAfterEffects ==
    \A e \in ConfigNames \cap DOMAIN disk :
        Field(disk[e], "lastStreamId") # Null
            => FanOutCompleted(Defaulted(disk[e]), e)

(* ------------------------------------------------------------------ *)
(* C21                                                                *)
(* ------------------------------------------------------------------ *)

\* C21: once a shutdown request has cleared `running`, the scheduler is
\* never waiting in the inter-sweep sleep.
C21_PromptExit == ~running => pcMain # "sleep"

(* ------------------------------------------------------------------ *)
(* C22                                                                *)
(* ------------------------------------------------------------------ *)

\* Line 278: setTimeout(resolve, 30 * 10000)
SleepMs == 30 * 10000

\* Line 242: fulfillWithTimeLimit(15 * 1000, ...)
TimeLimitMs == 15 * 1000

\* The timers pending in a state, with the delay each was armed with.
PendingTimers ==
    {[timer |-> k, ms |-> IF k = "sleep" THEN SleepMs ELSE TimeLimitMs] : k \in timers}

\* C22: the sleep timer is armed with 30000 ms and the time limit of an
\* update() with 15000 ms.
C22_TimingConstants ==
    \A t \in PendingTimers : t.ms = IF t.timer = "sleep" THEN 30000 ELSE 15000

====
